---- MODULE Spec2Model ----
(***************************************************************************)
(* pip-upgrade-all: model of src/pip_upgrade/main.py.                      *)
(*                                                                         *)
(* One run of main(): obtain the package list (pip query + include/exclude *)
(* filter, or import from a file), optionally export it, then              *)
(* PipUpgrader.upgrade_all_packages: overall confirmation, batch upgrade,  *)
(* and the per-package path (sequential with prompts in interactive mode,  *)
(* a ThreadPoolExecutor otherwise).  A package is modelled by its name;    *)
(* the version strings are only formatted into messages.                   *)
(***************************************************************************)
EXTENDS Integers, Sequences, FiniteSets, TLC

(* ------------------------------ bounds -------------------------------- *)

\* longest package list offered to the worker pool
MaxPkgs == 3
\* largest --max-workers value
MaxWorkers == 2
\* longest list of outdated packages given to the filter alone
MaxFilterLen == 3

(* ------------------------- program constants -------------------------- *)

\* main.py:204  `len(outdated) > 5` asks for an overall confirmation
ConfirmThreshold == 5

\* Python's Optional: None, or a value
None == [some |-> FALSE]
Some(v) == [some |-> TRUE, val |-> v]

\* package names, in the order pip reports them
AllNames == <<"a", "b", "c", "d", "e", "f", "g", "h">>

Prefix(n) == SubSeq(AllNames, 1, n)

Range(s) == {s[k] : k \in 1..Len(s)}

\* how an upgrade subprocess can end: exit status 0, CalledProcessError,
\* TimeoutExpired
SubprocessResults == {"exit0", "nonzero", "timeout"}

\* how the batch subprocess can end: as above, or any other exception
\* (main.py:161 catches Exception), such as a pip executable that cannot be run
BatchSubprocessResults == SubprocessResults \cup {"oserror"}

\* how the list query / the import file read can end
QueryResults == {"ok", "nonzero", "malformed"}

VARIABLES
    args,          \* command line: dry_run, import_file, include, exclude
    upgrader,      \* PipUpgrader fields set by __init__
    env,           \* what pip list / the import file will answer
    pc,            \* position of the main thread
    outdated,      \* main(): the package list handed to upgrade_all_packages
    confirms,      \* number of overall confirmations asked
    batch_calls,   \* number of batch upgrade subprocesses invoked
    batch_exit,    \* how the batch subprocess ended: "none", "exit0", "failed"
    batch_results, \* upgrade_all_packages: batch_results
    queue,         \* executor work queue (indices into outdated), FIFO
    threads,       \* worker threads the executor has spawned
    running,       \* indices whose upgrade subprocess is in flight
    started,       \* per list entry: single-package subprocesses invoked
    prompted,      \* per list entry: prompts issued
    outcome,       \* per list entry: what upgrade_package returned, or "none"
    result,        \* per list entry: how its subprocess ended, or "none"
    completion,    \* pool: indices in the order their futures completed
    first,         \* as_completed: the futures already done when it was called
    reported,      \* indices in the order their result line was printed
    idx,           \* interactive loop: current position in outdated
    successful,
    failed,
    skipped,
    printed,       \* kinds of message printed so far
    summary,       \* the counts printed by the final summary (None before)
    interrupted    \* a KeyboardInterrupt was delivered to the main thread

vars == <<args, upgrader, env, pc, outdated, confirms, batch_calls,
          batch_exit, batch_results, queue, threads, running, started,
          prompted, outcome, result, completion, first, reported, idx,
          successful, failed, skipped, printed, summary, interrupted>>

(* ----------------------------- __init__ ------------------------------- *)

\* main.py:32  self.include = set(include) if include else None
IncludeSet(include) ==
    IF include.some /\ include.val # <<>>
    THEN Some(Range(include.val))
    ELSE None

\* main.py:33  self.exclude = set(exclude) if exclude else set()
ExcludeSet(exclude) ==
    IF exclude.some /\ exclude.val # <<>> THEN Range(exclude.val) ELSE {}

\* main.py:352-363 via main.py:25-36
PipUpgrader(a, workers, interactive, batch, coe) ==
    [ max_workers       |-> workers,
      include           |-> IncludeSet(a.include),
      exclude           |-> ExcludeSet(a.exclude),
      interactive       |-> interactive,
      batch_mode        |-> batch,
      continue_on_error |-> coe ]

(* ------------------------ get_outdated_packages ----------------------- *)

\* mutant of Keep: a name on the include list is kept without looking at
\* the exclude list
KeepIncludeWins(name, include, exclude) ==
    IF include.some THEN name \in include.val ELSE name \notin exclude

\* main.py:71-74 the test applied to one package of the list
Keep(name, include, exclude) ==
    /\ ~(include.some /\ name \notin include.val)
    /\ name \notin exclude

\* main.py:69-77 the filter loop
RECURSIVE Filter(_, _, _)
Filter(pkgs, include, exclude) ==
    IF pkgs = <<>> THEN <<>>
    ELSE LET rest == Filter(Tail(pkgs), include, exclude)
         IN  IF Keep(Head(pkgs), include, exclude)
             THEN <<Head(pkgs)>> \o rest
             ELSE rest

\* main.py:57-87 the value get_outdated_packages returns and what it prints
GetOutdatedResult(status, listed, include, exclude) ==
    IF status = "ok"
    THEN [ value |-> Filter(listed, include, exclude), msg |-> {} ]
    ELSE [ value |-> <<>>, msg |-> {"query_error"} ]

\* main.py:179-188 the value import_package_list returns
ImportResult(status, listed) ==
    IF status = "ok" THEN listed ELSE <<>>

\* main.py:368-369
GetOutdatedPackages ==
    /\ pc = "main"
    /\ ~args.import_file
    /\ LET r == GetOutdatedResult(env.status, env.listed,
                                  upgrader.include, upgrader.exclude)
       IN  /\ outdated' = r.value
           /\ printed' = printed \cup r.msg
    /\ started' = [k \in 1..Len(outdated') |-> 0]
    /\ prompted' = [k \in 1..Len(outdated') |-> 0]
    /\ outcome' = [k \in 1..Len(outdated') |-> "none"]
    /\ result' = [k \in 1..Len(outdated') |-> "none"]
    /\ pc' = "export"
    /\ UNCHANGED <<args, upgrader, env, confirms, batch_calls, batch_exit,
                   batch_results, queue, threads, running, completion, first,
                   reported, idx, successful, failed, skipped, summary,
                   interrupted>>

\* main.py:366-367
ImportPackageList ==
    /\ pc = "main"
    /\ args.import_file
    /\ outdated' = ImportResult(env.status, env.listed)
    /\ printed' = printed \cup (IF env.status = "ok" THEN {"imported"}
                                                     ELSE {"import_error"})
    /\ started' = [k \in 1..Len(outdated') |-> 0]
    /\ prompted' = [k \in 1..Len(outdated') |-> 0]
    /\ outcome' = [k \in 1..Len(outdated') |-> "none"]
    /\ result' = [k \in 1..Len(outdated') |-> "none"]
    /\ pc' = "export"
    /\ UNCHANGED <<args, upgrader, env, confirms, batch_calls, batch_exit,
                   batch_results, queue, threads, running, completion, first,
                   reported, idx, successful, failed, skipped, summary,
                   interrupted>>

\* main.py:371-375; export is args.export, read here and nowhere else, and
\* the file written is not part of the state
ExportPackageList(export) ==
    /\ pc = "export"
    /\ pc' = IF export /\ args.dry_run THEN "exit" ELSE "upgrade_all"
    /\ UNCHANGED <<args, upgrader, env, confirms, outdated, batch_calls,
                   batch_exit, batch_results, queue, threads, running,
                   started, prompted, outcome, result, completion, first,
                   reported, idx, successful, failed, skipped, printed,
                   summary, interrupted>>

(* --------------------------- upgrade_package -------------------------- *)

\* mutant of UpgradeOutcome: TimeoutExpired has no handler of its own and is
\* caught as the SubprocessError it is
UpgradeOutcomeTimeoutAsError(r) ==
    CASE r = "exit0" -> "upgraded"
      [] r \in {"timeout", "nonzero"} -> "error"
      [] OTHER -> "unexpected"

\* main.py:101-125 the (success, message) pair returned for a subprocess result
UpgradeOutcome(r) ==
    CASE r = "exit0"   -> "upgraded"
      [] r = "timeout" -> "timed_out"
      [] r = "nonzero" -> "error"
      [] OTHER         -> "unexpected"

\* main.py:111 the only return whose success flag is True
Success(o) == o = "upgraded"

(* ------------------------ upgrade_all_packages ------------------------ *)

\* mutant of PerPackagePath: the packages are handed to the pool in
\* interactive mode too
PerPackagePathAlwaysPool ==
    /\ successful' = 0
    /\ failed' = 0
    /\ skipped' = 0
    /\ idx' = 1
    /\ pc' = "submit"
    /\ UNCHANGED prompted

\* main.py:229-241, 259-260 entry of the per-package path
PerPackagePath ==
    /\ successful' = 0
    /\ failed' = 0
    /\ skipped' = 0
    /\ idx' = 1
    /\ IF upgrader.interactive
       THEN /\ pc' = "prompt"
            /\ prompted' = [prompted EXCEPT ![1] = @ + 1]
       ELSE /\ pc' = "submit"
            /\ UNCHANGED prompted

\* mutant of BatchTaken: the test of the interactive flag is missing
BatchTakenIgnoresInteractive == upgrader.batch_mode

\* main.py:212 the condition under which the batch upgrade is tried
BatchTaken == upgrader.batch_mode /\ ~upgrader.interactive

\* main.py:210-214, 229 what follows the overall confirmation
AfterConfirmation ==
    IF BatchTaken
    THEN /\ pc' = "batch"
         /\ batch_calls' = batch_calls + 1
         /\ UNCHANGED <<prompted, idx, successful, failed, skipped>>
    ELSE /\ PerPackagePath
         /\ UNCHANGED batch_calls

\* mutant of NeedsConfirmation: the comparison is >= instead of >
NeedsConfirmationAtThreshold ==
    upgrader.interactive /\ Len(outdated) >= ConfirmThreshold

\* main.py:204 the overall confirmation is asked
NeedsConfirmation == upgrader.interactive /\ Len(outdated) > ConfirmThreshold

\* mutant of DryRun: the dry-run return comes after the prompts of
\* interactive mode
DryRunUnlessInteractive == args.dry_run /\ ~upgrader.interactive

\* main.py:199 the test that ends a dry run after the list is printed
DryRun == args.dry_run

\* main.py:190-214 entry of upgrade_all_packages up to its first blocking call
UpgradeAllPackages ==
    /\ pc = "upgrade_all"
    /\ IF outdated = <<>>
       THEN /\ printed' = printed \cup {"up_to_date"}
            /\ pc' = "returned"
            /\ UNCHANGED <<confirms, batch_calls, prompted, idx, successful,
                           failed, skipped>>
       ELSE IF DryRun
       THEN /\ printed' = printed \cup {"found", "dry_run"}
            /\ pc' = "returned"
            /\ UNCHANGED <<confirms, batch_calls, prompted, idx, successful,
                           failed, skipped>>
       ELSE IF NeedsConfirmation
       THEN /\ printed' = printed \cup {"found"}
            /\ confirms' = confirms + 1
            /\ pc' = "confirm"
            /\ UNCHANGED <<batch_calls, prompted, idx, successful, failed,
                           skipped>>
       ELSE /\ printed' = printed \cup {"found"}
            /\ AfterConfirmation
            /\ UNCHANGED confirms
    /\ UNCHANGED <<args, upgrader, env, outdated, batch_exit, batch_results,
                   queue, threads, running, started, outcome, result,
                   completion, first, reported, summary, interrupted>>

\* main.py:205-208 the answer to "Are you sure you want to upgrade N packages?"
ConfirmAll(yes) ==
    /\ pc = "confirm"
    /\ IF yes
       THEN /\ AfterConfirmation
            /\ UNCHANGED printed
       ELSE /\ printed' = printed \cup {"cancelled"}
            /\ pc' = "returned"
            /\ UNCHANGED <<batch_calls, prompted, idx, successful, failed,
                           skipped>>
    /\ UNCHANGED <<args, upgrader, env, confirms, outdated, batch_exit,
                   batch_results, queue, threads, running, started, outcome,
                   result, completion, first, reported, summary, interrupted>>

(* ----------------------- batch_upgrade_packages ----------------------- *)

\* mutant of BatchResults: the result list is returned before it is filled
BatchResultsUnfilled(r, pkgs) == <<>>

\* mutant of BatchResults: a failed batch reports every package as failed
\* instead of returning the empty list
BatchResultsAllFailed(r, pkgs) ==
    [k \in 1..Len(pkgs) |-> [name |-> pkgs[k], success |-> r = "exit0"]]

\* main.py:141-168 the list batch_upgrade_packages returns
BatchResults(r, pkgs) ==
    IF r = "exit0"
    THEN [k \in 1..Len(pkgs) |-> [name |-> pkgs[k], success |-> TRUE]]
    ELSE <<>>

\* main.py:218-219 the counts of the batch summary
BatchSummary(results) ==
    LET ok == Cardinality({k \in 1..Len(results) : results[k].success})
    IN  [kind |-> "batch", succeeded |-> ok, failed |-> Len(results) - ok,
         skipped |-> 0]

\* main.py:144-168, 214-229 the batch subprocess ends
BatchUpgradePackages(r) ==
    /\ pc = "batch"
    /\ batch_exit' = IF r = "exit0" THEN "exit0" ELSE "failed"
    /\ batch_results' = BatchResults(r, outdated)
    /\ IF batch_results' # <<>>
       THEN /\ printed' = printed \cup {"batch_done", "batch_summary"}
            /\ summary' = Some(BatchSummary(batch_results'))
            /\ pc' = "returned"
            /\ UNCHANGED <<prompted, idx, successful, failed, skipped>>
       ELSE /\ printed' = printed \cup {"batch_failed"}
            /\ PerPackagePath
            /\ UNCHANGED summary
    /\ UNCHANGED <<args, upgrader, env, confirms, outdated, batch_calls,
                   queue, threads, running, started, outcome, result,
                   completion, first, reported, interrupted>>

(* ------------------- per-package path, interactive -------------------- *)

\* mutant of InteractiveCount: the "Skipped by user" branch is missing
InteractiveCountSkipAsFailed(o) ==
    IF Success(o) THEN "successful" ELSE "failed"

\* main.py:244-252 which counter an outcome increments in the interactive loop
InteractiveCount(o) ==
    IF Success(o) THEN "successful"
    ELSE IF o = "skipped" THEN "skipped"
    ELSE "failed"

\* mutant of PoolCount: a timed-out upgrade is counted nowhere
PoolCountDropsTimeout(o) ==
    IF Success(o) THEN "successful"
    ELSE IF o = "timed_out" THEN "none"
    ELSE "failed"

\* main.py:273-278 which counter an outcome increments in the pool loop
PoolCount(o) ==
    IF Success(o) THEN "successful" ELSE "failed"

\* mutant of Count: a skipped package falls through to the failed counter too
CountSkippedAlsoFailed(c) ==
    /\ successful' = successful + (IF c = "successful" THEN 1 ELSE 0)
    /\ failed' = failed + (IF c \in {"failed", "skipped"} THEN 1 ELSE 0)
    /\ skipped' = skipped + (IF c = "skipped" THEN 1 ELSE 0)

\* main.py:245, 248, 251, 274, 277 the increment
Count(c) ==
    /\ successful' = successful + (IF c = "successful" THEN 1 ELSE 0)
    /\ failed' = failed + (IF c = "failed" THEN 1 ELSE 0)
    /\ skipped' = skipped + (IF c = "skipped" THEN 1 ELSE 0)

\* mutant of StopsRun: the break is missing
StopsRunNever(o) == FALSE

\* main.py:250-257 the interactive loop breaks after this outcome
StopsRun(o) ==
    InteractiveCount(o) = "failed" /\ ~upgrader.continue_on_error

\* main.py:240-241, 96-97 next iteration of the interactive loop: prompt for
\* the next package, or leave the loop
NextPackage(stop) ==
    IF stop \/ idx = Len(outdated)
    THEN /\ pc' = "summary"
         /\ UNCHANGED <<prompted, idx>>
    ELSE /\ pc' = "prompt"
         /\ idx' = idx + 1
         /\ prompted' = [prompted EXCEPT ![idx + 1] = @ + 1]

\* main.py:97-109, 241-249 the user answers the prompt for outdated[idx]
AnswerPrompt(yes) ==
    /\ pc = "prompt"
    /\ IF yes
       THEN /\ started' = [started EXCEPT ![idx] = @ + 1]
            /\ running' = {idx}
            /\ pc' = "upgrading"
            /\ UNCHANGED <<prompted, outcome, reported, idx, successful,
                           failed, skipped>>
       ELSE /\ outcome' = [outcome EXCEPT ![idx] = "skipped"]
            /\ Count(InteractiveCount("skipped"))
            /\ reported' = Append(reported, idx)
            /\ NextPackage(StopsRun("skipped"))
            /\ UNCHANGED <<running, started>>
    /\ UNCHANGED <<args, upgrader, env, confirms, outdated, batch_calls,
                   batch_exit, result, batch_results, queue, threads,
                   completion, first, printed, summary, interrupted>>

\* main.py:103-125, 241-257 the subprocess of outdated[idx] ends
FinishUpgrade(r) ==
    /\ pc = "upgrading"
    /\ LET o == UpgradeOutcome(r)
       IN  /\ outcome' = [outcome EXCEPT ![idx] = o]
           /\ result' = [result EXCEPT ![idx] = r]
           /\ Count(InteractiveCount(o))
           /\ NextPackage(StopsRun(o))
    /\ running' = {}
    /\ reported' = Append(reported, idx)
    /\ UNCHANGED <<args, upgrader, env, confirms, outdated, batch_calls,
                   batch_exit, batch_results, queue, threads, started,
                   completion, first, printed, summary, interrupted>>

(* ----------------- per-package path, worker pool ---------------------- *)

\* mutant of AdjustThreadCount: one thread per submitted package
AdjustThreadCountUnbounded(n) == n + 1

\* main.py:237 ThreadPoolExecutor(max_workers): a thread is added on submit
\* while fewer than max_workers exist
AdjustThreadCount(n) ==
    IF n < upgrader.max_workers THEN n + 1 ELSE n

\* main.py:263-265 one iteration of the submit loop
Submit ==
    /\ pc = "submit"
    /\ idx <= Len(outdated)
    /\ queue' = Append(queue, idx)
    /\ threads' = AdjustThreadCount(threads)
    /\ idx' = idx + 1
    /\ UNCHANGED <<args, upgrader, env, confirms, pc, outdated, batch_calls,
                   batch_exit, batch_results, running, started, prompted,
                   outcome, result, completion, first, reported, successful,
                   failed, skipped, printed, summary, interrupted>>

\* main.py:268 as_completed(futures) is entered: the futures already done are
\* yielded first, in no particular order
AsCompleted ==
    /\ pc = "submit"
    /\ idx > Len(outdated)
    /\ first' = Range(completion)
    /\ pc' = "collect"
    /\ UNCHANGED <<args, upgrader, env, confirms, outdated, batch_calls,
                   batch_exit, batch_results, queue, threads, running,
                   started, prompted, outcome, result, completion, reported,
                   idx, successful, failed, skipped, printed, summary,
                   interrupted>>

\* mutant of WorkerFree: a worker whose upgrade timed out is lost to the pool
WorkerFreeLostOnTimeout ==
    Cardinality(running)
        + Cardinality({k \in 1..Len(outcome) : outcome[k] = "timed_out"})
        < threads

\* a worker thread is free to take a work item
WorkerFree == Cardinality(running) < threads

\* main.py:264, 101-109 a worker takes the oldest queued package and starts
\* its upgrade subprocess
WorkerTake ==
    /\ queue # <<>>
    /\ WorkerFree
    /\ started' = [started EXCEPT ![Head(queue)] = @ + 1]
    /\ running' = running \cup {Head(queue)}
    /\ queue' = Tail(queue)
    /\ UNCHANGED <<args, upgrader, env, confirms, pc, outdated, batch_calls,
                   batch_exit, batch_results, threads, prompted, outcome,
                   result, completion, first, reported, idx, successful,
                   failed, skipped, printed, summary, interrupted>>

\* main.py:103-125 the subprocess of a worker ends; its future completes
WorkerFinish(i, r) ==
    /\ ~upgrader.interactive
    /\ i \in running
    /\ outcome' = [outcome EXCEPT ![i] = UpgradeOutcome(r)]
    /\ result' = [result EXCEPT ![i] = r]
    /\ running' = running \ {i}
    /\ completion' = Append(completion, i)
    /\ UNCHANGED <<args, upgrader, env, confirms, pc, outdated, batch_calls,
                   batch_exit, batch_results, queue, threads, started,
                   prompted, first, reported, idx, successful, failed,
                   skipped, printed, summary, interrupted>>

\* mutant of NextFutures: the results are taken in submission order
NextFuturesSubmissionOrder ==
    {i \in Range(completion) : i = Len(reported) + 1}

\* main.py:268 the futures as_completed can yield next: those already done
\* when it was called come first, in no particular order; the others follow
\* in the order of their completion
NextFutures ==
    IF first \ Range(reported) # {} THEN first \ Range(reported)
    ELSE {completion[k] : k \in {j \in 1..Len(completion) :
              /\ completion[j] \notin Range(reported)
              /\ \A h \in 1..(j - 1) : completion[h] \in Range(reported)}}

\* main.py:268-278, 288 one iteration of the result loop.  upgrade_package
\* catches every Exception, so future.result() returns and the handler of
\* main.py:280-286 is never entered.
Collect(i) ==
    /\ pc = "collect"
    /\ i \in NextFutures
    /\ Count(PoolCount(outcome[i]))
    /\ reported' = Append(reported, i)
    /\ pc' = IF Len(reported') = Len(outdated) THEN "summary" ELSE "collect"
    /\ UNCHANGED <<args, upgrader, env, confirms, outdated, batch_calls,
                   batch_exit, batch_results, queue, threads, running,
                   started, prompted, outcome, result, completion, first, idx,
                   printed, summary, interrupted>>

\* main.py:288-297 the final summary
Summary ==
    /\ pc = "summary"
    /\ summary' = Some([kind |-> "final", succeeded |-> successful,
                        failed |-> failed, skipped |-> skipped])
    /\ printed' = printed \cup {"summary"}
    /\ pc' = "returned"
    /\ UNCHANGED <<args, upgrader, env, confirms, outdated, batch_calls,
                   batch_exit, batch_results, queue, threads, running,
                   started, prompted, outcome, result, completion, first,
                   reported, idx, successful, failed, skipped, interrupted>>

(* ------------------------------ main ---------------------------------- *)

\* main.py:383-384
MainEnd ==
    /\ pc = "returned"
    /\ printed' = printed \cup (IF args.dry_run THEN {} ELSE {"completed"})
    /\ pc' = "exit"
    /\ UNCHANGED <<args, upgrader, env, confirms, outdated, batch_calls,
                   batch_exit, batch_results, queue, threads, running,
                   started, prompted, outcome, result, completion, first,
                   reported, idx, successful, failed, skipped, summary,
                   interrupted>>

\* the main thread is blocked in input() or subprocess.run()
InMainThreadCall == pc \in {"confirm", "prompt", "upgrading", "batch"}

\* the main thread is inside `with ThreadPoolExecutor(...)` with work submitted
InPool == pc \in {"submit", "collect"}

\* main.py:378-381 KeyboardInterrupt while the main thread is in input() or
\* subprocess.run(): the child is killed and the exception reaches main()
InterruptMain ==
    /\ InMainThreadCall
    /\ ~interrupted
    /\ interrupted' = TRUE
    /\ running' = {}
    /\ printed' = printed \cup {"interrupted"}
    /\ pc' = "returned"
    /\ UNCHANGED <<args, upgrader, env, confirms, outdated, batch_calls,
                   batch_exit, batch_results, queue, threads, started,
                   prompted, outcome, result, completion, first, reported,
                   idx, successful, failed, skipped, summary>>

\* main.py:237 KeyboardInterrupt inside the with block of the pool: the
\* executor's __exit__ runs shutdown(wait=True)
InterruptPool ==
    /\ InPool
    /\ ~interrupted
    /\ interrupted' = TRUE
    /\ pc' = "shutdown"
    /\ UNCHANGED <<args, upgrader, env, confirms, outdated, batch_calls,
                   batch_exit, batch_results, queue, threads, running,
                   started, prompted, outcome, result, completion, first,
                   reported, idx, successful, failed, skipped, printed,
                   summary>>

\* main.py:237, 380-381 shutdown(wait=True) returns once every submitted
\* future is done; the exception then reaches main()
ShutdownDone ==
    /\ pc = "shutdown"
    /\ queue = <<>>
    /\ running = {}
    /\ printed' = printed \cup {"interrupted"}
    /\ pc' = "returned"
    /\ UNCHANGED <<args, upgrader, env, confirms, outdated, batch_calls,
                   batch_exit, batch_results, queue, threads, running,
                   started, prompted, outcome, result, completion, first,
                   reported, idx, successful, failed, skipped, summary,
                   interrupted>>

(* ------------------------------ runs ---------------------------------- *)

\* main.py:349-363 the state after parse_args() and PipUpgrader(...)
Start(dry, imp, inc, exc, w, inter, batch, coe, status, listed) ==
    /\ args = [dry_run |-> dry, import_file |-> imp,
               include |-> inc, exclude |-> exc]
    /\ upgrader = PipUpgrader(args, w, inter, batch, coe)
    /\ env = [status |-> status, listed |-> listed]
    /\ pc = "main"
    /\ outdated = <<>>
    /\ confirms = 0
    /\ batch_calls = 0
    /\ batch_exit = "none"
    /\ batch_results = <<>>
    /\ queue = <<>>
    /\ threads = 0
    /\ running = {}
    /\ started = <<>>
    /\ prompted = <<>>
    /\ outcome = <<>>
    /\ result = <<>>
    /\ completion = <<>>
    /\ first = {}
    /\ reported = <<>>
    /\ idx = 0
    /\ successful = 0
    /\ failed = 0
    /\ skipped = 0
    /\ printed = {}
    /\ summary = None
    /\ interrupted = FALSE

\* runs without --include/--exclude: every combination of the flags and of
\* the worker count, lists of 0..MaxPkgs packages.  continue_on_error is
\* read in the interactive loop only (main.py:255), so the pool is run with
\* it set for one worker only.
InitShort ==
    \E dry, inter, batch, coe \in BOOLEAN, w \in 1..MaxWorkers,
       status \in QueryResults, n \in 0..MaxPkgs :
        /\ status # "ok" => n = 0
        /\ (coe /\ ~inter) => w = 1
        /\ Start(dry, FALSE, None, None, w, inter, batch, coe, status,
                 Prefix(n))

\* --include / --exclude values tried in whole runs (argparse nargs="+":
\* absent, or a non-empty list)
SelectionArgs ==
    { [include |-> None, exclude |-> Some(<<"b">>)],
      [include |-> Some(<<"a", "b">>), exclude |-> Some(<<"b">>)] }

\* runs with a selection, the list queried or imported, one worker
InitSelect ==
    \E dry, imp, inter, batch \in BOOLEAN, sel \in SelectionArgs,
       status \in QueryResults, n \in 0..MaxPkgs :
        /\ status # "ok" => n = 0
        /\ imp => status # "nonzero"
        /\ Start(dry, imp, sel.include, sel.exclude, 1, inter, batch, FALSE,
                 status, Prefix(n))

\* interactive mode with the longest list that needs no overall confirmation
\* and the shortest that needs one
InitLong ==
    \E dry, batch, coe \in BOOLEAN,
       n \in {ConfirmThreshold, ConfirmThreshold + 1} :
        Start(dry, FALSE, None, None, 1, TRUE, batch, coe, "ok", Prefix(n))

Init == InitShort \/ InitSelect \/ InitLong

Next ==
    \/ GetOutdatedPackages
    \/ ImportPackageList
    \/ \E export \in BOOLEAN : ExportPackageList(export)
    \/ UpgradeAllPackages
    \/ \E yes \in BOOLEAN : ConfirmAll(yes)
    \/ \E r \in BatchSubprocessResults : BatchUpgradePackages(r)
    \/ \E yes \in BOOLEAN : AnswerPrompt(yes)
    \/ \E r \in SubprocessResults : FinishUpgrade(r)
    \/ Submit
    \/ AsCompleted
    \/ WorkerTake
    \/ \E i \in running, r \in SubprocessResults : WorkerFinish(i, r)
    \/ \E i \in NextFutures : Collect(i)
    \/ Summary
    \/ MainEnd
    \/ InterruptMain
    \/ InterruptPool
    \/ ShutdownDone

Spec == Init /\ [][Next]_vars

(* ------------------- the worker pool under fairness -------------------- *)

\* longest list of packages in the runs checked under fairness
MaxPoolPkgs == 2

\* non-interactive runs of the per-package path, entered directly or after a
\* failed batch
InitPool ==
    \E batch \in BOOLEAN, w \in 1..MaxWorkers, n \in 0..MaxPoolPkgs :
        Start(FALSE, FALSE, None, None, w, FALSE, batch, FALSE, "ok", Prefix(n))

NextPool ==
    \/ GetOutdatedPackages
    \/ \E export \in BOOLEAN : ExportPackageList(export)
    \/ UpgradeAllPackages
    \/ \E r \in BatchSubprocessResults : BatchUpgradePackages(r)
    \/ Submit
    \/ AsCompleted
    \/ WorkerTake
    \/ \E i \in running, r \in SubprocessResults : WorkerFinish(i, r)
    \/ \E i \in NextFutures : Collect(i)
    \/ Summary
    \/ MainEnd
    \/ InterruptMain
    \/ InterruptPool
    \/ ShutdownDone

\* main.py:108 every upgrade subprocess exits or reaches its deadline
SubprocessesEnd ==
    WF_vars(\E i \in running, r \in SubprocessResults : WorkerFinish(i, r))

\* main.py:237, 263-297 the main thread and the worker threads are scheduled:
\* a thread that can take its next step takes it
ThreadsRun ==
    /\ WF_vars(Submit)
    /\ WF_vars(AsCompleted)
    /\ WF_vars(WorkerTake)
    /\ WF_vars(\E i \in NextFutures : Collect(i))
    /\ WF_vars(Summary)

SpecPool == InitPool /\ [][NextPool]_vars /\ SubprocessesEnd /\ ThreadsRun

(* ------------------------ upgrade_package alone ------------------------ *)

\* longest list of packages in the runs that try every subprocess result
MaxUpgradePkgs == 2

\* main.py:103-125 ways subprocess.run of one package can end, the command
\* that cannot be started (OSError) included
UpgradeResults == SubprocessResults \cup {"oserror"}

\* runs of the per-package path alone, interactive and not
InitUpgrade ==
    \E inter, coe \in BOOLEAN, w \in 1..MaxWorkers, n \in 1..MaxUpgradePkgs :
        Start(FALSE, FALSE, None, None, w, inter, FALSE, coe, "ok", Prefix(n))

NextUpgrade ==
    \/ GetOutdatedPackages
    \/ \E export \in BOOLEAN : ExportPackageList(export)
    \/ UpgradeAllPackages
    \/ \E yes \in BOOLEAN : AnswerPrompt(yes)
    \/ \E r \in UpgradeResults : FinishUpgrade(r)
    \/ Submit
    \/ AsCompleted
    \/ WorkerTake
    \/ \E i \in running, r \in UpgradeResults : WorkerFinish(i, r)
    \/ \E i \in NextFutures : Collect(i)
    \/ Summary
    \/ MainEnd

SpecUpgrade == InitUpgrade /\ [][NextUpgrade]_vars

(* -------------------------- the filter alone -------------------------- *)

\* longest --include list and longest --exclude list given to the filter
\* alone
MaxInclLen == 3
MaxExclLen == 2

FilterNames == {"a", "b", "c"}

\* lists of names of length 0..n
RECURSIVE SeqsUpTo(_, _)
SeqsUpTo(S, n) ==
    IF n = 0 THEN {<<>>}
    ELSE LET shorter == SeqsUpTo(S, n - 1)
         IN  shorter \cup {Append(q, x) : q \in shorter, x \in S}

OptionalLists(S, n) == {None} \cup {Some(q) : q \in SeqsUpTo(S, n) \ {<<>>}}

InitFilter ==
    \E inc \in OptionalLists(FilterNames, MaxInclLen),
       exc \in OptionalLists(FilterNames, MaxExclLen),
       status \in QueryResults,
       listed \in SeqsUpTo(FilterNames, MaxFilterLen) :
        /\ status # "ok" => listed = <<>>
        /\ Start(FALSE, FALSE, inc, exc, 1, FALSE, FALSE, FALSE, status, listed)

SpecFilter == InitFilter /\ [][GetOutdatedPackages]_vars

(* ------------------------ observed quantities ------------------------- *)

Entries == 1..Len(outdated)

\* main.py:104 names passed to a single-package `pip install --upgrade`
SingleUpgraded == {outdated[k] : k \in {j \in Entries : started[j] > 0}}

\* main.py:138 names passed to the batch `pip install --upgrade`
BatchUpgraded == IF batch_calls > 0 THEN Range(outdated) ELSE {}

UpgradedNames == SingleUpgraded \cup BatchUpgraded

\* main.py:115, 121, 125 outcomes returned with success False by a subprocess
Failure(o) == o \in {"timed_out", "error", "unexpected"}

\* main.py:288 the per-package loop has been left through its end: the final
\* summary is about to be printed, or has been
PathEnded ==
    \/ pc = "summary"
    \/ summary.some /\ summary.val.kind = "final"

(* ------------------------------ claims -------------------------------- *)

\* C1: no upgrade subprocess, single-package or batch, is ever invoked with
\* a package name that belongs to the exclude set, however the list was
\* obtained.  Violated: an imported list is never filtered.
C1_NoExcludedUpgrade == UpgradedNames \cap upgrader.exclude = {}

\* what the command line asks to keep
Requested(name) ==
    /\ ~args.include.some \/ name \in Range(args.include.val)
    /\ ~(args.exclude.some /\ name \in Range(args.exclude.val))

InBoth ==
    IF args.include.some /\ args.exclude.some
    THEN Range(args.include.val) \cap Range(args.exclude.val)
    ELSE {}

\* C2: the filter keeps a package of the outdated list exactly when (no
\* include list is given or its name is on it) and its name is not on the
\* exclude list; a name on both lists is removed; the kept packages stay in
\* their original order.
C2_FilterKeeps ==
    (pc = "export" /\ env.status = "ok") =>
        /\ outdated = SelectSeq(env.listed, Requested)
        /\ InBoth \cap Range(outdated) = {}

C2_Witness ==
    /\ pc = "export"
    /\ env.status = "ok"
    /\ InBoth \cap Range(env.listed) # {}
    /\ Len(env.listed) = 3
    /\ Len(outdated) = 2
    /\ outdated[1] # outdated[2]

\* C3: when the batch is taken and its subprocess succeeds for N >= 1
\* packages, the run has exactly N outcomes, one Success per package of the
\* list, reports Succeeded = N and Failed = 0, and ends without any
\* per-package upgrade subprocess.
C3_BatchSuccess ==
    batch_exit = "exit0" =>
        /\ Len(outdated) >= 1
        /\ batch_results =
               [k \in Entries |-> [name |-> outdated[k], success |-> TRUE]]
        /\ summary = Some([kind |-> "batch", succeeded |-> Len(outdated),
                           failed |-> 0, skipped |-> 0])
        /\ \A k \in Entries : started[k] = 0 /\ outcome[k] = "none"
        /\ reported = <<>>
        /\ pc \in {"returned", "exit"}

C3_Witness ==
    /\ batch_exit = "exit0"
    /\ Len(outdated) >= 2
    /\ pc = "exit"

\* C4: when the batch subprocess fails, the batch step contributes no outcome
\* and nothing to the Failed count, and the run falls back to the per-package
\* path, where exactly one upgrade subprocess is invoked for each package of
\* the list (none skipped, none attempted twice).
C4_BatchFallback ==
    batch_exit = "failed" =>
        /\ batch_results = <<>>
        /\ summary.some => summary.val.kind = "final"
        /\ failed = Cardinality({k \in Range(reported) : Failure(outcome[k])})
        /\ \A k \in Entries : started[k] <= 1
        /\ PathEnded => \A k \in Entries : started[k] = 1

C4_Witness ==
    /\ batch_exit = "failed"
    /\ pc = "exit"
    /\ ~interrupted
    /\ Len(outdated) >= 2
    /\ failed >= 1
    /\ \A k \in Entries : started[k] = 1

\* C5: in interactive mode with continue-on-error unset, once a package has a
\* Failed (or timed-out) outcome no later package is prompted for or
\* upgraded; with continue-on-error set, every package of the list is
\* processed (prompted, then upgraded or skipped) exactly once, whatever
\* failed on the way.
C5_InteractiveStop ==
    upgrader.interactive =>
        /\ \A k \in Entries : prompted[k] <= 1 /\ started[k] <= prompted[k]
        /\ ~upgrader.continue_on_error =>
               \A k \in Entries : Failure(outcome[k]) =>
                   \A j \in Entries : j > k => prompted[j] = 0 /\ started[j] = 0
        /\ (upgrader.continue_on_error /\ PathEnded) =>
               /\ reported = [k \in Entries |-> k]
               /\ \A k \in Entries :
                      /\ prompted[k] = 1
                      /\ outcome[k] # "none"
                      /\ started[k] = IF outcome[k] = "skipped" THEN 0 ELSE 1

C5_Witness ==
    /\ upgrader.interactive
    /\ upgrader.continue_on_error
    /\ pc = "exit"
    /\ summary.some
    /\ Len(outdated) >= 3
    /\ Failure(outcome[1])
    /\ outcome[2] = "skipped"
    /\ outcome[Len(outdated)] = "upgraded"

\* C6: in the non-interactive per-package path the number of upgrade
\* subprocesses in flight never exceeds max_workers, also with more packages
\* submitted than workers.
C6_BoundedInFlight ==
    ~upgrader.interactive => Cardinality(running) <= upgrader.max_workers

C6_Witness ==
    /\ ~upgrader.interactive
    /\ upgrader.max_workers >= 2
    /\ Cardinality(running) = upgrader.max_workers
    /\ queue # <<>>

\* C7: in non-interactive mode a failure or timeout of one package never
\* aborts the pool: with continue-on-error set or unset, every package of the
\* list is attempted by exactly one upgrade subprocess and has exactly one
\* outcome, and the final summary has Succeeded + Failed = number of packages.
C7_PoolNeverAborts ==
    ~upgrader.interactive =>
        /\ \A k \in Entries : started[k] <= 1
        /\ Cardinality(Range(reported)) = Len(reported)
        /\ PathEnded =>
               /\ \A k \in Entries : started[k] = 1 /\ outcome[k] # "none"
               /\ Range(reported) = Entries
               /\ successful + failed = Len(outdated)
               /\ skipped = 0
               /\ summary.some =>
                      summary.val.succeeded + summary.val.failed = Len(outdated)

C7_Witness ==
    /\ ~upgrader.interactive
    /\ ~upgrader.continue_on_error
    /\ pc = "exit"
    /\ summary.some
    /\ Len(outdated) >= 3
    /\ outcome[1] = "timed_out"
    /\ outcome[2] = "error"
    /\ outcome[3] = "upgraded"
    /\ summary.val.failed = 2

\* C8: after a user interrupt during the non-interactive per-package path, no
\* upgrade subprocess that had not been started is started.  Violated: the
\* executor's shutdown(wait=True) lets the workers run every queued package.
C8_NoStartAfterInterrupt ==
    [][(interrupted /\ ~upgrader.interactive) => started' = started]_vars

\* C9: a run interrupted by the user after k >= 1 outcomes were collected
\* still prints the final summary, with counts that account for those
\* outcomes.  Violated: the KeyboardInterrupt leaves upgrade_all_packages
\* before the summary.
C9_SummaryAfterInterrupt ==
    (interrupted /\ pc = "exit" /\ Len(reported) >= 1) =>
        /\ summary.some
        /\ summary.val.succeeded + summary.val.failed + summary.val.skipped
               = Len(reported)

\* the list query did not succeed
QueryFailed == ~args.import_file /\ env.status # "ok"

\* what a successful query that finds nothing outdated hands to the run
EmptyQueryReturn ==
    GetOutdatedResult("ok", <<>>, upgrader.include, upgrader.exclude).value

\* C10: when the list query exits non-zero or its output is malformed, the
\* run ends in an outcome distinguishable from that of a successful query
\* with no outdated package, and no upgrade subprocess is invoked.  Violated:
\* the failure is turned into the empty list and reported as "up to date".
C10_QueryErrorDistinct ==
    (QueryFailed /\ ~args.dry_run /\ pc = "exit") =>
        /\ outdated # EmptyQueryReturn
        /\ "up_to_date" \notin printed
        /\ UpgradedNames = {}

\* some single-package upgrade subprocess has been started
AnyStarted == \E k \in Entries : started[k] > 0

\* C11: the batch subprocess is invoked at most once, only with batch mode on
\* and interactive mode off (so never in interactive mode, batch requested or
\* not), and before any single-package subprocess: none has been started
\* while the batch subprocess runs, and one is started afterwards only when
\* the batch subprocess has already ended in failure.
C11_BatchOnceAndFirst ==
    /\ batch_calls <= 1
    /\ batch_calls > 0 => upgrader.batch_mode /\ ~upgrader.interactive
    /\ pc = "batch" => ~AnyStarted /\ batch_calls = 1
    /\ (AnyStarted /\ batch_calls > 0) => batch_exit = "failed"

\* a failed batch subprocess followed by a single-package subprocess
C11_Witness ==
    /\ batch_calls = 1
    /\ batch_exit = "failed"
    /\ AnyStarted

\* C12: interactive mode is strictly sequential: at most one upgrade
\* subprocess is in flight, and it is the one of the package being processed;
\* outcomes are recorded in list order; a subprocess is started for a package
\* only after the prompt for that package; and a package is prompted for only
\* when every earlier package has its outcome recorded.
C12_InteractiveSequential ==
    upgrader.interactive =>
        /\ Cardinality(running) <= 1
        /\ running # {} => running = {idx} /\ pc = "upgrading"
        /\ queue = <<>>
        /\ reported = [k \in 1..Len(reported) |-> k]
        /\ \A k \in Entries :
               /\ started[k] > 0 => prompted[k] > 0
               /\ prompted[k] > 0 =>
                      \A j \in 1..(k - 1) :
                          outcome[j] # "none" /\ j \in Range(reported)

\* the third package is being upgraded after the first two were
C12_Witness ==
    /\ upgrader.interactive
    /\ Len(outdated) >= 3
    /\ running = {3}
    /\ started[1] = 1
    /\ started[2] = 1
    /\ reported = <<1, 2>>

\* main.py:99 the outcome of a package declined at its prompt
Declined(o) == o = "skipped"

\* outcomes as the result loops tell them apart (main.py:244-252, 273-278)
Outcomes == {"upgraded", "skipped", "timed_out", "error", "unexpected"}

\* number of recorded entries whose outcome is in S
Recorded(S) == Cardinality({k \in Range(reported) : outcome[k] \in S})

\* C13: in interactive mode a package declined at its prompt has no upgrade
\* subprocess, is counted as Skipped and neither as Succeeded nor as Failed,
\* and does not stop the run, continue-on-error set or not: the next package
\* of the list has been prompted for.
C13_DeclinedIsSkipped ==
    upgrader.interactive =>
        /\ \A k \in Entries : Declined(outcome[k]) =>
               /\ started[k] = 0
               /\ k \in Range(reported)
               /\ k < Len(outdated) => prompted[k + 1] = 1
        /\ skipped = Recorded({o \in Outcomes : Declined(o)})
        /\ successful = Recorded({o \in Outcomes : Success(o)})
        /\ failed = Recorded({o \in Outcomes : Failure(o)})

\* continue-on-error unset, the first package declined, the second prompted
C13_Witness ==
    /\ upgrader.interactive
    /\ ~upgrader.continue_on_error
    /\ pc = "prompt"
    /\ idx = 2
    /\ outcome[1] = "skipped"
    /\ prompted[2] = 1
    /\ skipped = 1
    /\ failed = 0

\* the final summary is printed with an outcome collected for every package
SummaryOfAll ==
    /\ summary.some
    /\ summary.val.kind = "final"
    /\ Range(reported) = Entries
    /\ \A k \in Entries : outcome[k] # "none"

TimedOut == {k \in Entries : outcome[k] = "timed_out"}

\* C14: in the non-interactive per-package path, when every upgrade
\* subprocess exits or reaches its deadline, a timed-out upgrade ends only its
\* own unit of work: the packages still queued are started by the released
\* workers; and a run that is not interrupted by the user reaches the final
\* summary with an outcome collected for every package.
C14_PoolReachesSummary ==
    /\ (TimedOut # {} /\ queue # <<>>) ~> (queue = <<>>)
    /\ (pc = "submit") ~> (interrupted \/ SummaryOfAll)

\* one worker: the first upgrade timed out, the queued one was still started,
\* and the summary counts both
C14_Witness ==
    /\ ~upgrader.interactive
    /\ upgrader.max_workers = 1
    /\ Len(outdated) >= 2
    /\ outcome[1] = "timed_out"
    /\ started[2] = 1
    /\ SummaryOfAll
    /\ ~interrupted

\* position of entry i in the order of completion
CompletionPos(i) == CHOOSE j \in 1..Len(completion) : completion[j] = i

\* main.py:271 the progress index printed with the p-th reported outcome is
\* enumerate's i + 1, that is p
ProgressIndex(p) == (p - 1) + 1

Ended(k) == started[k] > 0 /\ k \notin running

\* C16: a single-package upgrade whose subprocess was started and has ended
\* has returned one outcome, recorded for its own package, and the outcome
\* is decided by the way the subprocess ended: timed out when the deadline
\* was exceeded, failed when it exited non-zero or could not be run,
\* success when it exited zero, and in no other case.  An entry has no
\* subprocess result exactly when it has no outcome yet or was declined at
\* its prompt.
C16_OutcomeBySubprocess ==
    \A k \in Entries :
        /\ started[k] <= 1
        /\ Ended(k) <=> result[k] # "none"
        /\ result[k] = "none" <=> outcome[k] \in {"none", "skipped"}
        /\ result[k] = "timeout" <=> outcome[k] = "timed_out"
        /\ result[k] \in {"nonzero", "oserror"} <=>
               Failure(outcome[k]) /\ outcome[k] # "timed_out"
        /\ result[k] = "exit0" <=> Success(outcome[k])

\* one subprocess could not be run, the other exceeded its deadline
C16_Witness ==
    /\ Len(outdated) >= 2
    /\ result[1] = "oserror"
    /\ Failure(outcome[1])
    /\ result[2] = "timeout"
    /\ outcome[2] = "timed_out"

\* C17: in a dry run, whatever the batch, interactive and continue-on-error
\* flags and the package list, no upgrade subprocess (batch or per-package)
\* is invoked and no prompt is issued: neither the overall confirmation nor
\* a per-package prompt.
C17_DryRunInert ==
    args.dry_run =>
        /\ batch_calls = 0
        /\ \A k \in Entries : started[k] = 0 /\ prompted[k] = 0
        /\ running = {} /\ queue = <<>>
        /\ pc \notin {"confirm", "prompt", "upgrading", "batch", "submit",
                       "collect"}

\* a dry run in interactive mode with batch requested and a list long enough
\* for the overall confirmation has printed its list and ended
C17_Witness ==
    /\ args.dry_run
    /\ upgrader.interactive
    /\ upgrader.batch_mode
    /\ Len(outdated) > ConfirmThreshold
    /\ "dry_run" \in printed
    /\ pc = "exit"

\* C18: throughout the per-package path every processed package is counted
\* in exactly one of Succeeded, Failed, Skipped: the three counters add up
\* to the number of packages processed so far, which never exceeds the
\* length of the list, and Succeeded and Failed (hence Skipped) are the
\* numbers of processed packages with that kind of outcome; Skipped is 0 in
\* non-interactive mode; and in an interactive run with continue-on-error
\* unset Failed is at most 1, at its end in particular.
C18_CountersPartition ==
    /\ successful + failed + skipped = Len(reported)
    /\ Len(reported) <= Len(outdated)
    /\ successful = Recorded({"upgraded"})
    /\ failed = Recorded({"timed_out", "error", "unexpected"})
    /\ ~upgrader.interactive => skipped = 0
    /\ (upgrader.interactive /\ ~upgrader.continue_on_error) =>
           /\ failed <= 1
           /\ PathEnded /\ failed = 1 => Failure(outcome[Len(reported)])

\* an interactive run without continue-on-error ended by its one failure,
\* after a success and a skip
C18_Witness ==
    /\ upgrader.interactive
    /\ ~upgrader.continue_on_error
    /\ PathEnded
    /\ successful = 1
    /\ skipped = 1
    /\ failed = 1
    /\ Len(reported) = 3

\* some per-package prompt has been issued
AnyPrompted == \E k \in Entries : prompted[k] > 0

\* no prompt for a package, no upgrade subprocess of either kind
NothingDone == ~AnyPrompted /\ ~AnyStarted /\ batch_calls = 0

\* C19: the overall confirmation is asked at most once, and only in
\* interactive mode with more than 5 packages (so never with 5 or fewer);
\* there it comes before anything else: until it has been asked and while it
\* waits for its answer no per-package prompt has been issued and no upgrade
\* subprocess invoked; and when the user declines it the run ends with
\* neither.
C19_OverallConfirmation ==
    /\ confirms <= 1
    /\ confirms = 1 => upgrader.interactive /\ Len(outdated) > ConfirmThreshold
    /\ (upgrader.interactive /\ Len(outdated) > ConfirmThreshold
          /\ confirms = 0) => NothingDone
    /\ pc = "confirm" => confirms = 1 /\ NothingDone
    /\ "cancelled" \in printed =>
           /\ confirms = 1
           /\ NothingDone
           /\ pc \in {"returned", "exit"}

\* six packages in interactive mode, the overall confirmation declined
C19_Witness ==
    /\ upgrader.interactive
    /\ Len(outdated) = ConfirmThreshold + 1
    /\ confirms = 1
    /\ "cancelled" \in printed
    /\ pc = "exit"

====
